---------------------------- MODULE Spec2Model ----------------------------
(***************************************************************************)
(* Cache-stampede lab (incident-003) and lease lab (incident-108).         *)
(*                                                                         *)
(* Each strategy of the cache-stampede client is a set of client threads   *)
(* working against one Redis instance.  Time is discrete: one tick is      *)
(* 0.1 s, the polling interval of the waiters.  time.sleep(d) suspends a   *)
(* thread for at least d; a thread whose step is due may run late          *)
(* (scheduling, Redis round trips), and over one run the clock advances    *)
(* past due threads at most MaxLate times.  A Redis operation is atomic;   *)
(* operations of different threads that fall into the same tick interleave *)
(* in any order.                                                           *)
(***************************************************************************)
EXTENDS Integers, Naturals, Sequences, FiniteSets, TLC

\* ------------------------------------------------------------- bounds
NumClients == 3
MaxLate == 0
MaxTime == 140

\* ------------------------------------------- program constants (ticks)
ComputeTicks == 20
PollTicks == 1
LockTTL == 100
CacheTTL == 100
LockPolls == 20
ComputingTTL == 50
ResultTTL == 50
CoalescePolls == 30
InitialTTL == 20
InitialValue == -1
StartDelay == 25
RefreshTTL == 50
ContendedTTL == 30
HoldTicks == 20
RetryTicks == 5
MaxAttempts == 10

Clients == 1..NumClients

VARIABLES
    strategy,   \* the function main() is running: the strategy or experiment chosen
    now,        \* the clock, in ticks of 0.1 s
    redis,      \* the Redis keys: name -> [val, exp]; val = 0 is "no such key"
    pc,         \* each client's position in client()
    due,        \* each client's earliest time for its next step
    late,       \* the ticks by which the clock has advanced past due threads
    polls,      \* each client's loop counter in the waiter loop
    got,        \* the value each client ended with (cached / result), 0 if none
    invoked,    \* per client: calls of expensive_computation
    results,    \* the list `results` (lock-based and early-expiration strategies)
    computations, \* the counter `computations` (request coalescing)
    computed,   \* expensive_computation calls that have returned
    began,      \* per client: the time of its first step (-1 before)
    tried,      \* per client: the time it contended for the fill (-1 before)
    granted,    \* per client: whether it was granted the fill
    db,         \* the database of the database labs: Postgres committed rows, Cassandra cluster
    rowlock,    \* row id -> the thread whose transaction holds the row lock, 0 if none
    tx          \* per thread: its call's arguments, open transaction and return value

vars == <<strategy, now, redis, pc, due, late, polls, got, invoked, results, computations,
          computed, began, tried, granted, db, rowlock, tx>>

Keys == {"key", "lock", "computing", "result", "contended", "my-lock"}
Absent == [val |-> 0, exp |-> 0]

\* ---------------------------------------------------------------- Postgres
\* accounts.id 1 and 2 (deadlock lab), events.id 1 (write-skew lab)
Rows == {1, 2}

NoWrites == [r \in Rows |-> 0]

\* a thread outside any transaction: no arguments, nothing written, no snapshot
NoTx == [src |-> 0, dst |-> 0, qty |-> 0, wr |-> NoWrites, snap |-> 0, ret |-> "none"]

\* the Redis labs open no database connection
NoPostgres ==
    /\ db = [balance |-> [r \in Rows |-> 0], sold |-> 0]
    /\ rowlock = [r \in Rows |-> 0]
    /\ tx = [c \in Clients |-> NoTx]

\* ------------------------------------------------------- Redis operations
\* r.get(k): the value, or 0 (None) when the key does not exist.  Expired keys
\* are removed by Expire as the clock advances, so an existing key is live.
Get(r, k) == r[k].val

\* r.setex(k, ttl, v): unconditional upsert with expiration.
SetEx(r, k, ttl, v) == [r EXCEPT ![k] = [val |-> v, exp |-> now + ttl]]

\* (a SET that ignores NX)
SetAlwaysGranted(r, k) == TRUE

\* r.set(k, v, nx=True, ex=ttl): TRUE iff the key did not exist.
SetNxGranted(r, k) == r[k].val = 0

\* (a SET NX without EX: the key never expires)
SetNxNoExpiry(r, k, ttl, v) ==
    IF SetNxGranted(r, k) THEN [r EXCEPT ![k] = [val |-> v, exp |-> MaxTime + ttl]] ELSE r

SetNx(r, k, ttl, v) == IF SetNxGranted(r, k) THEN SetEx(r, k, ttl, v) ELSE r

\* r.delete(k): removes the key whoever set it.
Delete(r, k) == [r EXCEPT ![k] = Absent]

\* Redis key expiry at time t.
Expire(r, t) == [k \in DOMAIN r |-> IF r[k].val # 0 /\ r[k].exp <= t THEN Absent ELSE r[k]]

\* ------------------------------------------------------------- the clock
Finished(c) == pc[c] \in {"done", "raised", "crashed"}

Overdue(c) == ~Finished(c) /\ due[c] <= now

\* The clock advances past a thread whose step is due only while lateness
\* is left.
Tick ==
    /\ now < MaxTime
    /\ \E c \in Clients : ~Finished(c)
    /\ (\E c \in Clients : Overdue(c)) => late < MaxLate
    /\ now' = now + 1
    /\ late' = IF \E c \in Clients : Overdue(c) THEN late + 1 ELSE late
    /\ redis' = Expire(redis, now + 1)
    /\ UNCHANGED <<db, rowlock, tx, strategy, pc, due, polls, got, invoked, results, computations, computed, began, tried, granted>>

Ready(c, label) == pc[c] = label /\ due[c] <= now

\* expensive_computation(key): the value returned by the n-th call to return.
\* It is f"data_{key}_{time.time()}"; calls return at distinct instants, so
\* the values of distinct calls differ.
\* (a value that no call has returned)
expensive_computation_unreturned(n) == n + 2

expensive_computation(n) == n + 1

\* -------------------------------------------------- strategy 3: lock-based
\* (a client that goes for the lock whatever r.get(key) returned)
lock_client_get_no_fast_path(c) ==
    /\ Ready(c, "start")
    /\ pc' = [pc EXCEPT ![c] = "acquire"]
    /\ due' = [due EXCEPT ![c] = now]
    /\ began' = [began EXCEPT ![c] = now]
    /\ UNCHANGED <<db, rowlock, tx, strategy, now, late, redis, polls, got, invoked, results, computations, computed, tried, granted>>

\* cached = r.get(key); if cached: return
lock_client_get(c) ==
    /\ Ready(c, "start")
    /\ IF Get(redis, "key") # 0
       THEN /\ pc' = [pc EXCEPT ![c] = "done"]
            /\ got' = [got EXCEPT ![c] = Get(redis, "key")]
            /\ due' = [due EXCEPT ![c] = 0]
       ELSE /\ pc' = [pc EXCEPT ![c] = "acquire"]
            /\ got' = got
            /\ due' = [due EXCEPT ![c] = now]
    /\ began' = [began EXCEPT ![c] = now]
    /\ UNCHANGED <<db, rowlock, tx, strategy, now, late, redis, polls, invoked, results, computations, computed, tried, granted>>

\* acquired = r.set(lock_key, "locked", nx=True, ex=10)
lock_client_acquire(c) ==
    /\ Ready(c, "acquire")
    /\ redis' = SetNx(redis, "lock", LockTTL, 1)
    /\ tried' = [tried EXCEPT ![c] = now]
    /\ granted' = [granted EXCEPT ![c] = SetNxGranted(redis, "lock")]
    /\ IF SetNxGranted(redis, "lock")
       THEN /\ pc' = [pc EXCEPT ![c] = "compute"]
            /\ due' = [due EXCEPT ![c] = now]
       ELSE /\ pc' = [pc EXCEPT ![c] = "wait"]
            /\ due' = [due EXCEPT ![c] = now + PollTicks]
    /\ UNCHANGED <<db, rowlock, tx, strategy, now, late, polls, got, invoked, results, computations, computed, began>>

\* the filler calls expensive_computation(key): time.sleep(2)
lock_client_compute(c) ==
    /\ Ready(c, "compute")
    /\ invoked' = [invoked EXCEPT ![c] = @ + 1]
    /\ pc' = [pc EXCEPT ![c] = "computing"]
    /\ due' = [due EXCEPT ![c] = now + ComputeTicks]
    /\ UNCHANGED <<db, rowlock, tx, strategy, now, late, redis, polls, got, results, computations, computed, began, tried, granted>>

\* result = expensive_computation(key) returns; r.setex(key, 10, result);
\* results.append(result)
lock_client_setex(c) ==
    /\ Ready(c, "computing")
    /\ computed' = computed + 1
    /\ redis' = SetEx(redis, "key", CacheTTL, expensive_computation(computed))
    /\ results' = Append(results, expensive_computation(computed))
    /\ got' = [got EXCEPT ![c] = expensive_computation(computed)]
    /\ pc' = [pc EXCEPT ![c] = "release"]
    /\ due' = [due EXCEPT ![c] = now]
    /\ UNCHANGED <<db, rowlock, tx, strategy, now, late, polls, invoked, computations, began, tried, granted>>

\* finally: r.delete(lock_key)
lock_client_release(c) ==
    /\ pc[c] \in {"release", "release_exc"}
    /\ due[c] <= now
    /\ redis' = Delete(redis, "lock")
    /\ pc' = [pc EXCEPT ![c] = IF pc[c] = "release" THEN "done" ELSE "raised"]
    /\ due' = [due EXCEPT ![c] = 0]
    /\ UNCHANGED <<db, rowlock, tx, strategy, now, late, polls, got, invoked, results, computations, computed, began, tried, granted>>

\* (a waiter loop without a bound: while True)
lock_client_poll_unbounded(c) ==
    /\ Ready(c, "wait")
    /\ IF Get(redis, "key") # 0
       THEN /\ pc' = [pc EXCEPT ![c] = "done"]
            /\ got' = [got EXCEPT ![c] = Get(redis, "key")]
            /\ due' = [due EXCEPT ![c] = 0]
       ELSE /\ due' = [due EXCEPT ![c] = now + PollTicks]
            /\ UNCHANGED <<pc, got>>
    /\ UNCHANGED <<db, rowlock, tx, strategy, now, late, redis, polls, invoked, results, computations, computed, began, tried, granted>>

\* for _ in range(20): time.sleep(0.1); cached = r.get(key); if cached: return
\* and, the loop exhausted, result = expensive_computation(key)
lock_client_poll(c) ==
    /\ Ready(c, "wait")
    /\ IF Get(redis, "key") # 0
       THEN /\ pc' = [pc EXCEPT ![c] = "done"]
            /\ got' = [got EXCEPT ![c] = Get(redis, "key")]
            /\ due' = [due EXCEPT ![c] = 0]
            /\ UNCHANGED <<polls, invoked>>
       ELSE IF polls[c] + 1 < LockPolls
       THEN /\ polls' = [polls EXCEPT ![c] = @ + 1]
            /\ due' = [due EXCEPT ![c] = now + PollTicks]
            /\ UNCHANGED <<pc, got, invoked>>
       ELSE /\ polls' = [polls EXCEPT ![c] = @ + 1]
            /\ invoked' = [invoked EXCEPT ![c] = @ + 1]
            /\ pc' = [pc EXCEPT ![c] = "timeout_computing"]
            /\ due' = [due EXCEPT ![c] = now + ComputeTicks]
            /\ got' = got
    /\ UNCHANGED <<db, rowlock, tx, strategy, now, late, redis, results, computations, computed, began, tried, granted>>

\* the timed-out waiter's expensive_computation(key) returns; the result is
\* neither cached nor appended to results
lock_client_timeout_result(c) ==
    /\ Ready(c, "timeout_computing")
    /\ computed' = computed + 1
    /\ got' = [got EXCEPT ![c] = expensive_computation(computed)]
    /\ pc' = [pc EXCEPT ![c] = "done"]
    /\ due' = [due EXCEPT ![c] = 0]
    /\ UNCHANGED <<db, rowlock, tx, strategy, now, late, redis, polls, invoked, results, computations, began, tried, granted>>

lock_client(c) ==
    \/ lock_client_get(c)
    \/ lock_client_acquire(c)
    \/ lock_client_compute(c)
    \/ lock_client_setex(c)
    \/ lock_client_release(c)
    \/ lock_client_poll(c)
    \/ lock_client_timeout_result(c)

\* ------------------------------------------------------------ the faults
\* (a client that calls expensive_computation again when it has raised)
lock_computation_retried(c) ==
    /\ pc[c] \in {"computing", "timeout_computing"}
    /\ due[c] <= now
    /\ invoked' = [invoked EXCEPT ![c] = @ + 1]
    /\ due' = [due EXCEPT ![c] = now + ComputeTicks]
    /\ UNCHANGED <<db, rowlock, tx, strategy, now, late, redis, pc, polls, got, results, computations, computed, began, tried, granted>>

\* expensive_computation raises (at the end of its time.sleep) in the filler:
\* the try block is left, so
\* r.setex and results.append are skipped, and the finally block runs next.
\* In the timed-out waiter nothing encloses the call: the thread ends.
lock_computation_raises(c) ==
    /\ pc[c] \in {"computing", "timeout_computing"}
    /\ due[c] <= now
    /\ pc' = [pc EXCEPT ![c] = IF pc[c] = "computing" THEN "release_exc" ELSE "raised"]
    /\ due' = [due EXCEPT ![c] = IF pc[c] = "computing" THEN now ELSE 0]
    /\ UNCHANGED <<db, rowlock, tx, strategy, now, late, redis, polls, got, invoked, results, computations, computed, began, tried, granted>>

\* r.set(lock_key, "locked", nx=True, ex=10) raises (redis ConnectionError or
\* TimeoutError): the command may or may not have run on the server; nothing
\* in client() catches the exception, the thread ends.
lock_acquire_raises(c) ==
    /\ Ready(c, "acquire")
    /\ redis' \in {redis, SetNx(redis, "lock", LockTTL, 1)}
    /\ tried' = [tried EXCEPT ![c] = now]
    /\ pc' = [pc EXCEPT ![c] = "raised"]
    /\ due' = [due EXCEPT ![c] = 0]
    /\ UNCHANGED <<db, rowlock, tx, strategy, now, late, polls, got, invoked, results, computations, computed, began, granted>>

\* The holder's process dies between its r.set(..., nx=True, ex=...) and its
\* r.delete(lock_key), at one of its steps: the lock key stays until its TTL
\* runs out.
lock_crash(c) ==
    /\ pc[c] \in {"compute", "computing", "release", "ct_hold"}
    /\ due[c] <= now
    /\ pc' = [pc EXCEPT ![c] = "crashed"]
    /\ due' = [due EXCEPT ![c] = 0]
    /\ UNCHANGED <<db, rowlock, tx, strategy, now, late, redis, polls, got, invoked, results, computations, computed, began, tried, granted>>

\* The holder's process is suspended inside its time.sleep (time.sleep may
\* take longer than asked by an arbitrary amount; a paused process or host):
\* it wakes after its lease's TTL has run out, and goes on to its r.delete.
StallTicks(ttl, hold) == ttl - hold + 5

holder_stall(c) ==
    /\ pc[c] \in {"computing", "ct_hold"}
    /\ LET ttl == IF pc[c] = "computing" THEN LockTTL ELSE ContendedTTL
           hold == IF pc[c] = "computing" THEN ComputeTicks ELSE HoldTicks
       IN  /\ now < due[c]
           /\ due[c] < tried[c] + ttl
           /\ due' = [due EXCEPT ![c] = @ + StallTicks(ttl, hold)]
    /\ UNCHANGED <<db, rowlock, tx, strategy, now, late, redis, pc, polls, got, invoked, results, computations, computed, began, tried, granted>>

\* lock_cache_concurrent: r.delete(key); r.delete(f"{key}:lock"); results = [];
\* one thread per client, all started at once
LockInit ==
    /\ strategy = "lock_cache_concurrent"
    /\ NoPostgres
    /\ now = 0
    /\ redis = [k \in Keys |-> Absent]
    /\ pc = [c \in Clients |-> "start"]
    /\ due = [c \in Clients |-> 0]
    /\ late = 0
    /\ polls = [c \in Clients |-> 0]
    /\ got = [c \in Clients |-> 0]
    /\ invoked = [c \in Clients |-> 0]
    /\ results = <<>>
    /\ computations = 0
    /\ computed = 0
    /\ began = [c \in Clients |-> -1]
    /\ tried = [c \in Clients |-> -1]
    /\ granted = [c \in Clients |-> FALSE]

LockNext == Tick \/ \E c \in Clients : lock_client(c)

LockSpec == LockInit /\ [][LockNext]_vars

\* The last request arrives with the others, after a failed fill, or after
\* the lock's TTL; the others arrive at once.
Arrivals == {0, ComputeTicks + 5, LockTTL + 5}

ArrivalInit(name, label) ==
    /\ strategy = name
    /\ NoPostgres
    /\ now = 0
    /\ redis = [k \in Keys |-> Absent]
    /\ pc = [c \in Clients |-> label]
    /\ \E t \in Arrivals : due = [c \in Clients |-> IF c = NumClients THEN t ELSE 0]
    /\ late = 0
    /\ polls = [c \in Clients |-> 0]
    /\ got = [c \in Clients |-> 0]
    /\ invoked = [c \in Clients |-> 0]
    /\ results = <<>>
    /\ computations = 0
    /\ computed = 0
    /\ began = [c \in Clients |-> -1]
    /\ tried = [c \in Clients |-> -1]
    /\ granted = [c \in Clients |-> FALSE]

LockFaultInit == ArrivalInit("lock_cache_concurrent", "start")

LockFaultNext ==
    \/ LockNext
    \/ \E c \in Clients : lock_computation_raises(c)
    \/ \E c \in Clients : lock_crash(c)

LockFaultSpec == LockFaultInit /\ [][LockFaultNext]_vars

\* ... and with a Redis whose SET may fail.
LockProviderFaultNext == LockFaultNext \/ \E c \in Clients : lock_acquire_raises(c)

LockProviderFaultSpec == LockFaultInit /\ [][LockProviderFaultNext]_vars


\* --------------------------------------------- strategy 5: request coalescing
\* cached = r.get(key); if cached: return
coalescing_client_get(c) ==
    /\ Ready(c, "q_start")
    /\ IF Get(redis, "key") # 0
       THEN /\ pc' = [pc EXCEPT ![c] = "done"]
            /\ got' = [got EXCEPT ![c] = Get(redis, "key")]
            /\ due' = [due EXCEPT ![c] = 0]
       ELSE /\ pc' = [pc EXCEPT ![c] = "q_check"]
            /\ got' = got
            /\ due' = [due EXCEPT ![c] = now]
    /\ began' = [began EXCEPT ![c] = now]
    /\ UNCHANGED <<db, rowlock, tx, strategy, now, late, redis, polls, invoked, results, computations, computed, tried, granted>>

\* computing = r.get(f"{key}:computing"); if computing: (wait) else (fill)
coalescing_client_check(c) ==
    /\ Ready(c, "q_check")
    /\ tried' = [tried EXCEPT ![c] = now]
    /\ granted' = [granted EXCEPT ![c] = Get(redis, "computing") = 0]
    /\ pc' = [pc EXCEPT ![c] = IF Get(redis, "computing") # 0 THEN "q_wait" ELSE "q_mark"]
    /\ due' = [due EXCEPT ![c] = now]
    /\ UNCHANGED <<db, rowlock, tx, strategy, now, late, redis, polls, got, invoked, results, computations, computed, began>>

\* for _ in range(30): result = r.get(result_key); if result: (adopt);
\* time.sleep(0.1) -- and, the loop exhausted after its last sleep,
\* print("Timeout"); return
coalescing_client_poll(c) ==
    /\ pc[c] \in {"q_wait", "q_timeout"}
    /\ due[c] <= now
    /\ IF pc[c] = "q_timeout"
       THEN /\ pc' = [pc EXCEPT ![c] = "done"]
            /\ due' = [due EXCEPT ![c] = 0]
            /\ UNCHANGED <<got, polls>>
       ELSE IF Get(redis, "result") # 0
       THEN /\ got' = [got EXCEPT ![c] = Get(redis, "result")]
            /\ pc' = [pc EXCEPT ![c] = "q_adopt"]
            /\ due' = [due EXCEPT ![c] = now]
            /\ polls' = polls
       ELSE /\ polls' = [polls EXCEPT ![c] = @ + 1]
            /\ due' = [due EXCEPT ![c] = now + PollTicks]
            /\ pc' = [pc EXCEPT ![c] = IF polls[c] + 1 < CoalescePolls THEN "q_wait" ELSE "q_timeout"]
            /\ got' = got
    /\ UNCHANGED <<db, rowlock, tx, strategy, now, late, redis, invoked, results, computations, computed, began, tried, granted>>

\* r.setex(key, 10, result); return -- by a waiter that got the coalesced
\* result, or by a filler that found the result after setting its marker
coalescing_client_adopt(c) ==
    /\ Ready(c, "q_adopt")
    /\ redis' = SetEx(redis, "key", CacheTTL, got[c])
    /\ pc' = [pc EXCEPT ![c] = "done"]
    /\ due' = [due EXCEPT ![c] = 0]
    /\ UNCHANGED <<db, rowlock, tx, strategy, now, late, polls, got, invoked, results, computations, computed, began, tried, granted>>

\* r.setex(f"{key}:computing", 5, "1")
coalescing_client_mark(c) ==
    /\ Ready(c, "q_mark")
    /\ redis' = SetEx(redis, "computing", ComputingTTL, 1)
    /\ pc' = [pc EXCEPT ![c] = "q_recheck"]
    /\ due' = [due EXCEPT ![c] = now]
    /\ UNCHANGED <<db, rowlock, tx, strategy, now, late, polls, got, invoked, results, computations, computed, began, tried, granted>>

\* result = r.get(result_key); if result: (adopt) else: expensive_computation
coalescing_client_recheck(c) ==
    /\ Ready(c, "q_recheck")
    /\ IF Get(redis, "result") # 0
       THEN /\ got' = [got EXCEPT ![c] = Get(redis, "result")]
            /\ pc' = [pc EXCEPT ![c] = "q_adopt"]
            /\ due' = [due EXCEPT ![c] = now]
            /\ invoked' = invoked
       ELSE /\ invoked' = [invoked EXCEPT ![c] = @ + 1]
            /\ pc' = [pc EXCEPT ![c] = "q_computing"]
            /\ due' = [due EXCEPT ![c] = now + ComputeTicks]
            /\ got' = got
    /\ UNCHANGED <<db, rowlock, tx, strategy, now, late, redis, polls, results, computations, computed, began, tried, granted>>

\* (a filler that does not write the result slot)
coalescing_client_skip_result(c) ==
    /\ Ready(c, "q_computing")
    /\ computed' = computed + 1
    /\ got' = [got EXCEPT ![c] = expensive_computation(computed)]
    /\ pc' = [pc EXCEPT ![c] = "q_store"]
    /\ due' = [due EXCEPT ![c] = now]
    /\ UNCHANGED <<db, rowlock, tx, strategy, now, late, redis, polls, invoked, results, computations, began, tried, granted>>

\* expensive_computation returns; r.setex(result_key, 5, result)
coalescing_client_set_result(c) ==
    /\ Ready(c, "q_computing")
    /\ computed' = computed + 1
    /\ got' = [got EXCEPT ![c] = expensive_computation(computed)]
    /\ redis' = SetEx(redis, "result", ResultTTL, expensive_computation(computed))
    /\ pc' = [pc EXCEPT ![c] = "q_store"]
    /\ due' = [due EXCEPT ![c] = now]
    /\ UNCHANGED <<db, rowlock, tx, strategy, now, late, polls, invoked, results, computations, began, tried, granted>>

\* r.setex(key, 10, result)
coalescing_client_set_key(c) ==
    /\ Ready(c, "q_store")
    /\ redis' = SetEx(redis, "key", CacheTTL, got[c])
    /\ pc' = [pc EXCEPT ![c] = "q_unmark"]
    /\ due' = [due EXCEPT ![c] = now]
    /\ UNCHANGED <<db, rowlock, tx, strategy, now, late, polls, got, invoked, results, computations, computed, began, tried, granted>>

\* r.delete(f"{key}:computing"); computations += 1
coalescing_client_unmark(c) ==
    /\ Ready(c, "q_unmark")
    /\ redis' = Delete(redis, "computing")
    /\ computations' = computations + 1
    /\ pc' = [pc EXCEPT ![c] = "done"]
    /\ due' = [due EXCEPT ![c] = 0]
    /\ UNCHANGED <<db, rowlock, tx, strategy, now, late, polls, got, invoked, results, computed, began, tried, granted>>

coalescing_client(c) ==
    \/ coalescing_client_get(c)
    \/ coalescing_client_check(c)
    \/ coalescing_client_poll(c)
    \/ coalescing_client_adopt(c)
    \/ coalescing_client_mark(c)
    \/ coalescing_client_recheck(c)
    \/ coalescing_client_set_result(c)
    \/ coalescing_client_set_key(c)
    \/ coalescing_client_unmark(c)

\* expensive_computation raises in the filler (at the end of its time.sleep):
\* nothing encloses the call, the thread ends, and the computing marker stays.
coalescing_computation_raises(c) ==
    /\ Ready(c, "q_computing")
    /\ pc' = [pc EXCEPT ![c] = "raised"]
    /\ due' = [due EXCEPT ![c] = 0]
    /\ UNCHANGED <<db, rowlock, tx, strategy, now, late, redis, polls, got, invoked, results, computations, computed, began, tried, granted>>

\* The filler's process dies between setting and deleting its marker.
coalescing_crash(c) ==
    /\ pc[c] \in {"q_recheck", "q_computing", "q_store", "q_unmark"}
    /\ due[c] <= now
    /\ pc' = [pc EXCEPT ![c] = "crashed"]
    /\ due' = [due EXCEPT ![c] = 0]
    /\ UNCHANGED <<db, rowlock, tx, strategy, now, late, redis, polls, got, invoked, results, computations, computed, began, tried, granted>>

\* request_coalescing_concurrent: r.delete of key, key:computing, key:result;
\* computations = 0; the threads are started at once
CoalescingInit ==
    /\ strategy = "request_coalescing_concurrent"
    /\ NoPostgres
    /\ now = 0
    /\ redis = [k \in Keys |-> Absent]
    /\ pc = [c \in Clients |-> "q_start"]
    /\ due = [c \in Clients |-> 0]
    /\ late = 0
    /\ polls = [c \in Clients |-> 0]
    /\ got = [c \in Clients |-> 0]
    /\ invoked = [c \in Clients |-> 0]
    /\ results = <<>>
    /\ computations = 0
    /\ computed = 0
    /\ began = [c \in Clients |-> -1]
    /\ tried = [c \in Clients |-> -1]
    /\ granted = [c \in Clients |-> FALSE]

CoalescingNext == Tick \/ \E c \in Clients : coalescing_client(c)

CoalescingSpec == CoalescingInit /\ [][CoalescingNext]_vars

CoalescingFaultInit == ArrivalInit("request_coalescing_concurrent", "q_start")

CoalescingFaultNext ==
    \/ CoalescingNext
    \/ \E c \in Clients : coalescing_computation_raises(c)
    \/ \E c \in Clients : coalescing_crash(c)

CoalescingFaultSpec == CoalescingFaultInit /\ [][CoalescingFaultNext]_vars

\* A client's process is suspended between its marker check (r.get of
\* key:computing) and its next Redis call, for longer than one computation.
coalescing_stall(c) ==
    /\ pc[c] \in {"q_mark", "q_recheck"}
    /\ due[c] = tried[c]
    /\ due' = [due EXCEPT ![c] = @ + ComputeTicks + 5]
    /\ UNCHANGED <<db, rowlock, tx, strategy, now, late, redis, pc, polls, got, invoked, results, computations, computed, began, tried, granted>>

CoalescingStallNext == CoalescingFaultNext \/ \E c \in Clients : coalescing_stall(c)

CoalescingStallSpec == CoalescingFaultInit /\ [][CoalescingStallNext]_vars

\* ------------------------------------------- strategy 4: early expiration
\* cached = r.get(key); if cached: return -- else expensive_computation(key)
early_client_get(c) ==
    /\ Ready(c, "e_start")
    /\ began' = [began EXCEPT ![c] = now]
    /\ IF Get(redis, "key") # 0
       THEN /\ pc' = [pc EXCEPT ![c] = "done"]
            /\ got' = [got EXCEPT ![c] = Get(redis, "key")]
            /\ due' = [due EXCEPT ![c] = 0]
            /\ invoked' = invoked
       ELSE /\ pc' = [pc EXCEPT ![c] = "e_computing"]
            /\ invoked' = [invoked EXCEPT ![c] = @ + 1]
            /\ due' = [due EXCEPT ![c] = now + ComputeTicks]
            /\ got' = got
    /\ UNCHANGED <<db, rowlock, tx, strategy, now, late, redis, polls, results, computations, computed, tried, granted>>

\* expensive_computation returns; r.setex(key, 5, result); results.append(result)
early_client_setex(c) ==
    /\ Ready(c, "e_computing")
    /\ computed' = computed + 1
    /\ got' = [got EXCEPT ![c] = expensive_computation(computed)]
    /\ redis' = SetEx(redis, "key", RefreshTTL, expensive_computation(computed))
    /\ results' = Append(results, expensive_computation(computed))
    /\ pc' = [pc EXCEPT ![c] = "done"]
    /\ due' = [due EXCEPT ![c] = 0]
    /\ UNCHANGED <<db, rowlock, tx, strategy, now, late, polls, invoked, computations, began, tried, granted>>

early_client(c) == early_client_get(c) \/ early_client_setex(c)

\* early_expiration_concurrent: r.setex(key, 2, "initial_value"); results = [];
\* time.sleep(2.5); then the threads are started
EarlyInit ==
    /\ strategy = "early_expiration_concurrent"
    /\ NoPostgres
    /\ now = 0
    /\ redis = [k \in Keys |-> IF k = "key" THEN [val |-> InitialValue, exp |-> InitialTTL] ELSE Absent]
    /\ pc = [c \in Clients |-> "e_start"]
    /\ due = [c \in Clients |-> StartDelay]
    /\ late = 0
    /\ polls = [c \in Clients |-> 0]
    /\ got = [c \in Clients |-> 0]
    /\ invoked = [c \in Clients |-> 0]
    /\ results = <<>>
    /\ computations = 0
    /\ computed = 0
    /\ began = [c \in Clients |-> -1]
    /\ tried = [c \in Clients |-> -1]
    /\ granted = [c \in Clients |-> FALSE]

EarlyNext == Tick \/ \E c \in Clients : early_client(c)

EarlySpec == EarlyInit /\ [][EarlyNext]_vars

\* main() of the cache-stampede lab: the strategy chosen runs (choices 3, 4, 5)
Init == LockInit \/ EarlyInit \/ CoalescingInit

Next ==
    \/ Tick
    \/ \E c \in Clients : lock_client(c)
    \/ \E c \in Clients : early_client(c)
    \/ \E c \in Clients : coalescing_client(c)

Spec == Init /\ [][Next]_vars

\* ------------------------------------- lease lab: experiment_contended_leases
\* for attempt in range(10):
\*     result = lab.redis.set(lock_key, f"client-{client_id}", nx=True, ex=3)
\*     if result: (hold) else: current = lab.redis.get(lock_key); time.sleep(0.5)
try_acquire_set(c) ==
    /\ Ready(c, "ct_try")
    /\ redis' = SetNx(redis, "contended", ContendedTTL, c)
    /\ began' = [began EXCEPT ![c] = IF began[c] < 0 THEN now ELSE began[c]]
    /\ tried' = [tried EXCEPT ![c] = now]
    /\ granted' = [granted EXCEPT ![c] = SetNxGranted(redis, "contended")]
    /\ polls' = [polls EXCEPT ![c] = @ + 1]
    /\ IF SetNxGranted(redis, "contended")
       THEN /\ pc' = [pc EXCEPT ![c] = "ct_hold"]
            /\ due' = [due EXCEPT ![c] = now + HoldTicks]
       ELSE IF polls[c] + 1 < MaxAttempts
       THEN /\ pc' = pc
            /\ due' = [due EXCEPT ![c] = now + RetryTicks]
       ELSE /\ pc' = [pc EXCEPT ![c] = "done"]
            /\ due' = [due EXCEPT ![c] = 0]
    /\ UNCHANGED <<db, rowlock, tx, strategy, now, late, got, invoked, results, computations, computed>>

\* time.sleep(2); lab.redis.delete(lock_key); return
try_acquire_release(c) ==
    /\ Ready(c, "ct_hold")
    /\ redis' = Delete(redis, "contended")
    /\ pc' = [pc EXCEPT ![c] = "done"]
    /\ due' = [due EXCEPT ![c] = 0]
    /\ UNCHANGED <<db, rowlock, tx, strategy, now, late, polls, got, invoked, results, computations, computed, began, tried, granted>>

try_acquire(c) == try_acquire_set(c) \/ try_acquire_release(c)

\* experiment_contended_leases: the threads are started at once; the key is
\* not there (no earlier holder).
ContendedInit ==
    /\ strategy = "experiment_contended_leases"
    /\ NoPostgres
    /\ now = 0
    /\ redis = [k \in Keys |-> Absent]
    /\ pc = [c \in Clients |-> "ct_try"]
    /\ due = [c \in Clients |-> 0]
    /\ late = 0
    /\ polls = [c \in Clients |-> 0]
    /\ got = [c \in Clients |-> 0]
    /\ invoked = [c \in Clients |-> 0]
    /\ results = <<>>
    /\ computations = 0
    /\ computed = 0
    /\ began = [c \in Clients |-> -1]
    /\ tried = [c \in Clients |-> -1]
    /\ granted = [c \in Clients |-> FALSE]

ContendedNext == Tick \/ \E c \in Clients : try_acquire(c)

ContendedSpec == ContendedInit /\ [][ContendedNext]_vars

\* Both lease users, with holders that may die while holding.
LeaseInit == LockFaultInit \/ ContendedInit

LeaseNext == LockFaultNext \/ \E c \in Clients : try_acquire(c)

LeaseSpec == LeaseInit /\ [][LeaseNext]_vars

\* ... and with holders that may be suspended beyond their lease's TTL.
LeaseStallNext == LeaseNext \/ \E c \in Clients : holder_stall(c)

LeaseStallSpec == LeaseInit /\ [][LeaseStallNext]_vars

\* ================================================================ deadlock lab
\* The database labs are untimed: a time.sleep is a point at which the other
\* threads may take any number of steps.
InitialBalance == 1000
TransferAmount == 100

redisvars == <<now, redis, due, late, got, invoked, results, computations, computed,
               began, tried, granted>>

\* (statements that wait for no row lock)
RowFreeUnlocked(r, c) == TRUE

\* A row lock is free for a transaction when no other transaction holds it.
RowFree(r, c) == rowlock[r] \in {0, c}

\* "UPDATE accounts SET balance = balance + delta WHERE id = r" by thread c:
\* takes the row lock (waits while another transaction holds it) and changes
\* the row in c's transaction.
Update(c, r, delta) ==
    /\ RowFree(r, c)
    /\ rowlock' = [rowlock EXCEPT ![r] = c]
    /\ tx' = [tx EXCEPT ![c].wr[r] = @ + delta]

\* the rows a transaction's end (commit or rollback) unlocks
Unlocked(c) == [r \in Rows |-> IF rowlock[r] = c THEN 0 ELSE rowlock[r]]

\* (a commit that keeps the debits and loses the credits)
CommittedDebitsOnly(c) ==
    [r \in Rows |-> db.balance[r] + (IF tx[c].wr[r] < 0 THEN tx[c].wr[r] ELSE 0)]

\* conn.commit(): the transaction's changes become the committed rows
Committed(c) == [r \in Rows |-> db.balance[r] + tx[c].wr[r]]

\* the change of account r in a transfer of thread c
Delta(c, r) == IF r = tx[c].src THEN 0 - tx[c].qty ELSE tx[c].qty

\* (the first statement always on from_id)
FirstRowUnordered(c) == tx[c].src

\* transfer_with_lock_ordering: if from_id < to_id the first UPDATE is on
\* from_id, else on to_id
FirstRow(c) == IF tx[c].src < tx[c].dst THEN tx[c].src ELSE tx[c].dst

SecondRow(c) == IF FirstRow(c) = tx[c].src THEN tx[c].dst ELSE tx[c].src

lock_ordering_first(c) ==
    /\ pc[c] = "o_first"
    /\ Update(c, FirstRow(c), Delta(c, FirstRow(c)))
    /\ pc' = [pc EXCEPT ![c] = "o_second"]
    /\ UNCHANGED <<strategy, db, polls, redisvars>>

lock_ordering_second(c) ==
    /\ pc[c] = "o_second"
    /\ Update(c, SecondRow(c), Delta(c, SecondRow(c)))
    /\ pc' = [pc EXCEPT ![c] = "o_commit"]
    /\ UNCHANGED <<strategy, db, polls, redisvars>>

\* conn.commit(); return True
transfer_commit(c) ==
    /\ pc[c] \in {"o_commit", "w_commit"}
    /\ db' = [db EXCEPT !.balance = Committed(c)]
    /\ rowlock' = Unlocked(c)
    /\ tx' = [tx EXCEPT ![c].wr = NoWrites, ![c].ret = "True"]
    /\ pc' = [pc EXCEPT ![c] = "done"]
    /\ UNCHANGED <<strategy, polls, redisvars>>

\* transfer_locking_wrong_order: UPDATE ... balance - amount WHERE id = from_id;
\* time.sleep(delay)
wrong_order_debit(c) ==
    /\ pc[c] = "w_debit"
    /\ Update(c, tx[c].src, 0 - tx[c].qty)
    /\ pc' = [pc EXCEPT ![c] = "w_credit"]
    /\ UNCHANGED <<strategy, db, polls, redisvars>>

\* UPDATE ... balance + amount WHERE id = to_id
wrong_order_credit(c) ==
    /\ pc[c] = "w_credit"
    /\ Update(c, tx[c].dst, tx[c].qty)
    /\ pc' = [pc EXCEPT ![c] = "w_commit"]
    /\ UNCHANGED <<strategy, db, polls, redisvars>>

\* the row the next UPDATE of thread c is on, 0 if it has none to run
NextRow(c) ==
    CASE pc[c] = "o_first" -> FirstRow(c)
      [] pc[c] = "o_second" -> SecondRow(c)
      [] pc[c] = "w_debit" -> tx[c].src
      [] pc[c] = "w_credit" -> tx[c].dst
      [] OTHER -> 0

\* thread c waits for a row lock that thread d's transaction holds
WaitsFor(c, d) == c # d /\ NextRow(c) # 0 /\ rowlock[NextRow(c)] = d

\* with two rows a cycle of waiting transactions has two members
Deadlocked(c) == \E d \in Clients : WaitsFor(c, d) /\ WaitsFor(d, c)

\* (an abort that keeps the victim's row locks)
deadlock_detected_keeps_locks(c) ==
    /\ Deadlocked(c)
    /\ tx' = [tx EXCEPT ![c].wr = NoWrites, ![c].ret = "False"]
    /\ pc' = [pc EXCEPT ![c] = "done"]
    /\ UNCHANGED <<strategy, db, rowlock, polls, redisvars>>

\* Postgres finds the cycle and aborts a transaction of it: its UPDATE raises
\* OperationalError "deadlock detected"; the with block rolls back and the
\* except clause returns False.
deadlock_detected(c) ==
    /\ Deadlocked(c)
    /\ rowlock' = Unlocked(c)
    /\ tx' = [tx EXCEPT ![c].wr = NoWrites, ![c].ret = "False"]
    /\ pc' = [pc EXCEPT ![c] = "done"]
    /\ UNCHANGED <<strategy, db, polls, redisvars>>

transfer(c) ==
    \/ lock_ordering_first(c)
    \/ lock_ordering_second(c)
    \/ wrong_order_debit(c)
    \/ wrong_order_credit(c)
    \/ transfer_commit(c)
    \/ deadlock_detected(c)

\* main() resets the balances to 1000.00; experiment_1_induce_deadlock and
\* experiment_2_lock_ordering start thread A (1 -> 2) and thread B (2 -> 1),
\* 100 each; further concurrent transfers go either way.
TransferArgs(s, d) == [NoTx EXCEPT !.src = s, !.dst = d, !.qty = TransferAmount]

DeadlockLabInit ==
    /\ \E f \in {"experiment_1_induce_deadlock", "experiment_2_lock_ordering"} :
          /\ strategy = f
          /\ pc = [c \in Clients |->
                     IF f = "experiment_1_induce_deadlock" THEN "w_debit" ELSE "o_first"]
    /\ db = [balance |-> [r \in Rows |-> InitialBalance], sold |-> 0]
    /\ rowlock = [r \in Rows |-> 0]
    /\ \E dir \in [Clients -> {<<1, 2>>, <<2, 1>>}] :
          /\ dir[1] = <<1, 2>>
          /\ dir[2] = <<2, 1>>
          /\ tx = [c \in Clients |-> TransferArgs(dir[c][1], dir[c][2])]
    /\ now = 0
    /\ redis = [k \in Keys |-> Absent]
    /\ due = [c \in Clients |-> 0]
    /\ late = 0
    /\ polls = [c \in Clients |-> 0]
    /\ got = [c \in Clients |-> 0]
    /\ invoked = [c \in Clients |-> 0]
    /\ results = <<>>
    /\ computations = 0
    /\ computed = 0
    /\ began = [c \in Clients |-> -1]
    /\ tried = [c \in Clients |-> -1]
    /\ granted = [c \in Clients |-> FALSE]

DeadlockLabNext == \E c \in Clients : transfer(c)

DeadlockLabSpec == DeadlockLabInit /\ [][DeadlockLabNext]_vars

\* ============================================================== write-skew lab
\* the event of the lab has 100 tickets; user A books 60, user B 50
TotalTickets == 100
QuantityA == 60
QuantityB == 50
MaxRetries == 5
EventId == 1

\* The SELECT ... FOR UPDATE starts: under SERIALIZABLE the transaction's
\* snapshot is taken at its first statement.
book_select_snapshot(c) ==
    /\ pc[c] = "b_select"
    /\ tx' = [tx EXCEPT ![c].snap = db.sold]
    /\ pc' = [pc EXCEPT ![c] = "b_lock"]
    /\ UNCHANGED <<strategy, db, rowlock, polls, redisvars>>

\* The SELECT ... FOR UPDATE gets the row lock (it waits while another
\* transaction holds it).  If the row was changed by a transaction that
\* committed after the snapshot, the statement raises OperationalError
\* "could not serialize access due to concurrent update".  The except clause
\* looks for the word "serialization" (and, in book_tickets_serializable,
\* "deadlock") in the server's message.  If it finds it, book_tickets_safe
\* returns False, and book_tickets_serializable sleeps and goes to its next
\* attempt, or returns False after max_retries attempts.  If it does not
\* (the message above has "serialize", not "serialization"), it re-raises:
\* the call ends with the exception.
book_select_lock(c) ==
    /\ pc[c] = "b_lock"
    /\ RowFree(EventId, c)
    /\ IF db.sold = tx[c].snap
       THEN /\ rowlock' = [rowlock EXCEPT ![EventId] = c]
            /\ pc' = [pc EXCEPT ![c] = "b_check"]
            /\ UNCHANGED <<tx, polls>>
       ELSE /\ rowlock' = rowlock
            /\ polls' = [polls EXCEPT ![c] = @ + 1]
            /\ \/ IF strategy = "book_tickets_serializable" /\ polls[c] + 1 < MaxRetries
                  THEN /\ pc' = [pc EXCEPT ![c] = "b_select"]
                       /\ tx' = tx
                  ELSE /\ pc' = [pc EXCEPT ![c] = "done"]
                       /\ tx' = [tx EXCEPT ![c].ret = "False"]
               \/ /\ pc' = [pc EXCEPT ![c] = "raised"]
                  /\ tx' = tx
    /\ UNCHANGED <<strategy, db, redisvars>>

\* available = cur.fetchone()[0]; if available >= quantity: time.sleep(0.1)
\* -- else "Sold out": return False; the transaction ends (rollback in
\* book_tickets_safe, the with block's commit in book_tickets_serializable)
book_check(c) ==
    /\ pc[c] = "b_check"
    /\ IF TotalTickets - tx[c].snap >= tx[c].qty
       THEN /\ pc' = [pc EXCEPT ![c] = "b_update"]
            /\ UNCHANGED <<rowlock, tx>>
       ELSE /\ pc' = [pc EXCEPT ![c] = "done"]
            /\ rowlock' = Unlocked(c)
            /\ tx' = [tx EXCEPT ![c].ret = "False"]
    /\ UNCHANGED <<strategy, db, polls, redisvars>>

\* UPDATE events SET sold_tickets = sold_tickets + quantity WHERE id = 1
book_update(c) ==
    /\ pc[c] = "b_update"
    /\ Update(c, EventId, tx[c].qty)
    /\ pc' = [pc EXCEPT ![c] = "b_commit"]
    /\ UNCHANGED <<strategy, db, polls, redisvars>>

\* (a call that returns True with its transaction rolled back)
book_commit_unapplied(c) ==
    /\ pc[c] = "b_commit"
    /\ rowlock' = Unlocked(c)
    /\ tx' = [tx EXCEPT ![c].wr = NoWrites, ![c].ret = "True"]
    /\ pc' = [pc EXCEPT ![c] = "done"]
    /\ UNCHANGED <<strategy, db, polls, redisvars>>

\* conn.commit(); return True
book_commit(c) ==
    /\ pc[c] = "b_commit"
    /\ db' = [db EXCEPT !.sold = @ + tx[c].wr[EventId]]
    /\ rowlock' = Unlocked(c)
    /\ tx' = [tx EXCEPT ![c].wr = NoWrites, ![c].ret = "True"]
    /\ pc' = [pc EXCEPT ![c] = "done"]
    /\ UNCHANGED <<strategy, polls, redisvars>>

book_tickets(c) ==
    \/ book_select_snapshot(c)
    \/ book_select_lock(c)
    \/ book_check(c)
    \/ book_update(c)
    \/ book_commit(c)

\* lab.reset_event(): sold_tickets = 0; user A books 60, user B books 50
\* (experiment_2_serializable), further users book either quantity; all the
\* users call book_tickets_serializable or all call book_tickets_safe.
BookingArgs(q) == [NoTx EXCEPT !.src = EventId, !.dst = EventId, !.qty = q]

SerializableInit ==
    /\ strategy \in {"book_tickets_safe", "book_tickets_serializable"}
    /\ pc = [c \in Clients |-> "b_select"]
    /\ db = [balance |-> [r \in Rows |-> 0], sold |-> 0]
    /\ rowlock = [r \in Rows |-> 0]
    /\ \E q \in [Clients -> {QuantityA, QuantityB}] :
          /\ q[1] = QuantityA
          /\ q[2] = QuantityB
          /\ tx = [c \in Clients |-> BookingArgs(q[c])]
    /\ now = 0
    /\ redis = [k \in Keys |-> Absent]
    /\ due = [c \in Clients |-> 0]
    /\ late = 0
    /\ polls = [c \in Clients |-> 0]
    /\ got = [c \in Clients |-> 0]
    /\ invoked = [c \in Clients |-> 0]
    /\ results = <<>>
    /\ computations = 0
    /\ computed = 0
    /\ began = [c \in Clients |-> -1]
    /\ tried = [c \in Clients |-> -1]
    /\ granted = [c \in Clients |-> FALSE]

SerializableNext == \E c \in Clients : book_tickets(c)

SerializableSpec == SerializableInit /\ [][SerializableNext]_vars

\* ---------------------------------------------------------------- helpers
RECURSIVE SumUpTo(_, _)
SumUpTo(f, n) == IF n = 0 THEN 0 ELSE f[n] + SumUpTo(f, n - 1)

TotalInvoked == SumUpTo(invoked, NumClients)

AllDone == \A c \in Clients : pc[c] = "done"

InSection(c) == pc[c] \in {"compute", "computing", "release", "release_exc", "ct_hold"}

\* --------------------------------------------------------------- C1
\* C1: lock-based strategy, N concurrent clients, cold cache, healthy lock
\* provider: when all clients have returned, expensive_computation has been
\* invoked exactly once in total.
C1_ExactlyOneComputation == AllDone => TotalInvoked = 1

\* --------------------------------------------------------------- C2
\* C2 (as claimed): across acquire, TTL expiry and release, at most one client
\* is inside its lease-protected section (between its granted SET NX EX and
\* its DELETE) at any instant.
C2_MutualExclusion == Cardinality({c \in Clients : InSection(c)}) <= 1

\* C2 (amended): at most one client at a time is inside its section with a
\* live lease, that is with the lease it was granted still stored under the
\* key; a holder that overruns its TTL stays inside without a live lease.
LeaseKey == IF strategy = "experiment_contended_leases" THEN "contended" ELSE "lock"

LeaseTTL == IF strategy = "experiment_contended_leases" THEN ContendedTTL ELSE LockTTL

HoldsLiveLease(c) ==
    /\ InSection(c)
    /\ Get(redis, LeaseKey) # 0
    /\ redis[LeaseKey].exp = tried[c] + LeaseTTL

C2_OneLiveLease == Cardinality({c \in Clients : HoldsLiveLease(c)}) <= 1

\* a holder has overrun its TTL and is still inside its section, while another
\* client is inside with the live lease
C2_Witness ==
    \E c, d \in Clients :
        /\ InSection(c) /\ ~HoldsLiveLease(c) /\ now >= tried[c] + LeaseTTL
        /\ HoldsLiveLease(d)

\* --------------------------------------------------------------- C3
\* C3: convergence: when all N concurrent clients have returned, every client
\* holds the same value, the one the single filler computed and appended to
\* results.
C3_Convergence ==
    AllDone => /\ Len(results) = 1
               /\ \A c \in Clients : got[c] = results[1]


\* Both strategies, with fillers that may fail or die and a late request.
FaultInit == LockFaultInit \/ CoalescingFaultInit

FaultNext == LockFaultNext \/ CoalescingFaultNext

FaultSpec == FaultInit /\ [][FaultNext]_vars

\* --------------------------------------------------------------- C4
\* C4: request coalescing, concurrent clients on one cold key, marker TTL 5 s,
\* waiter deadline 3 s, computation 2 s: when all clients have returned, the
\* computation has run exactly once and all clients hold the same value.
C4_PerfectCoalescing ==
    AllDone => /\ TotalInvoked = 1
               /\ \A c, d \in Clients : got[c] = got[d]

\* --------------------------------------------------------------- C5
\* C5: no poisoning: a failed computation writes nothing (the cache entry and
\* the result slot only ever hold values of computations that returned), and
\* a request that begins after the failure (no process having died) and
\* observes a miss runs the computation again (or adopts the value of a
\* computation that returned).
Missed(c) == tried[c] >= 0

AfterFailure(c) ==
    /\ \A f \in Clients : pc[f] # "crashed"
    /\ \E f \in Clients : /\ pc[f] = "raised"
                          /\ began[c] >= began[f] + ComputeTicks + MaxLate

C5_NoPoisoning ==
    /\ Get(redis, "key") \in 0..computed
    /\ Get(redis, "result") \in 0..computed
    /\ \A c \in Clients :
         (pc[c] = "done" /\ AfterFailure(c) /\ Missed(c))
            => (invoked[c] >= 1 \/ got[c] # 0)

Waiter(c) == tried[c] >= 0 /\ ~granted[c]

C7_EscapeValve ==
    \A c \in Clients :
        /\ (Waiter(c) /\ pc[c] = "done") => got[c] # 0
        /\ pc[c] = "timeout_computing"
             => due[c] - ComputeTicks <= tried[c] + LockPolls * PollTicks + MaxLate

\* the same for the lock-based strategy alone, where it holds
LockEscapeValve ==
    \A c \in Clients :
        /\ (Waiter(c) /\ pc[c] = "done") => got[c] # 0
        /\ (Waiter(c) /\ pc[c] = "done" /\ polls[c] = LockPolls) => invoked[c] = 1
        /\ pc[c] = "timeout_computing"
             => /\ due[c] - ComputeTicks <= tried[c] + LockPolls * PollTicks + MaxLate
                /\ due[c] - ComputeTicks < tried[c] + LockTTL

\* --------------------------------------------------------------- C8
\* C8: every request terminates: a client that has begun and not yet returned
\* is within its wait deadline plus one computation (plus its lateness) of its
\* beginning; as long as some client has not returned, a step is possible; and
\* a lock key or computing marker always has a TTL that runs out, so that a
\* request that begins after it has run out ends with a value.
LockLabels == {"start", "acquire", "compute", "computing", "release", "release_exc",
               "wait", "timeout_computing"}

Deadline(c) ==
    IF pc[c] \in LockLabels
    THEN LockPolls * PollTicks + ComputeTicks
    ELSE CoalescePolls * PollTicks

C8_Termination ==
    /\ \A c \in Clients :
         (began[c] >= 0 /\ ~Finished(c)) => now <= began[c] + Deadline(c) + MaxLate
    /\ (\E c \in Clients : ~Finished(c)) => ENABLED FaultNext
    /\ Get(redis, "lock") # 0 => redis["lock"].exp <= now + LockTTL
    /\ Get(redis, "computing") # 0 => redis["computing"].exp <= now + ComputingTTL
    /\ \A c \in Clients : (pc[c] = "done" /\ began[c] >= LockTTL) => got[c] # 0

\* the filler died holding the lock, a waiter ran into its deadline and
\* computed, and the late request has returned with a value
C8_Witness ==
    \E c, d, e \in Clients :
        /\ pc[c] = "crashed" /\ granted[c]
        /\ Waiter(d) /\ pc[d] = "done" /\ polls[d] = LockPolls /\ invoked[d] = 1
        /\ pc[e] = "done" /\ began[e] >= LockTTL /\ got[e] # 0

\* --------------------------------------------------------------- C9
\* C9: early refresh: when the concurrent readers of an entry due for refresh
\* have all returned, exactly one of them has run the refresh computation.
C9_SingleRefresh ==
    (strategy = "early_expiration_concurrent" /\ AllDone) => TotalInvoked = 1

\* --------------------------------------------------------------- C10
\* C10: early refresh: no reader blocks on the computation: at most one
\* client (the elected filler) is inside expensive_computation, and a reader
\* that did not compute returned the previously cached value.
C10_ReadersDoNotBlock ==
    strategy = "early_expiration_concurrent" =>
        /\ Cardinality({c \in Clients : pc[c] = "e_computing"}) <= 1
        /\ \A c \in Clients : (pc[c] = "done" /\ invoked[c] = 0) => got[c] = InitialValue

\* --------------------------------------------------------------- C11
\* C11: whenever a client adopts a value (takes it from the cache entry or
\* from the result slot rather than computing it), that value is in the slot
\* at the read and is the value of a computation that has returned.
C11_AdoptedWasCommitted ==
    [][\A c \in Clients :
          (got'[c] # got[c] /\ invoked'[c] = 0)
             => /\ got'[c] \in {Get(redis, "key"), Get(redis, "result")}
                /\ got'[c] \in 1..computed]_vars

\* a denied client has returned with a value it did not compute
C11_Witness ==
    \E c \in Clients : Waiter(c) /\ pc[c] = "done" /\ invoked[c] = 0 /\ got[c] # 0

\* --------------------------------------------------------------- C12
\* C12: in one miss episode exactly one client writes the canonical cache
\* entry; a client that was denied the fill (a waiter) never writes it.
WroteEntry(c) ==
    \/ pc[c] \in {"release", "q_unmark"}
    \/ /\ pc[c] = "done" /\ tried[c] >= 0 /\ got[c] # 0
       /\ (strategy = "request_coalescing_concurrent" \/ granted[c])

C12_SingleWriter ==
    /\ Cardinality({c \in Clients : WroteEntry(c)}) <= 1
    /\ \A c \in Clients : Waiter(c) => ~WroteEntry(c)
    /\ AllDone => Cardinality({c \in Clients : WroteEntry(c)}) = 1

\* --------------------------------------------------------------- C13
\* C13: a filler whose computation has failed has released its lease: once
\* its request has ended with the exception, and no other client is filling
\* and none has died, neither the lock key nor the computing marker is there.
Filling(c) == granted[c] /\ ~Finished(c) /\ pc[c] # "done"

C13_ReleaseOnFailure ==
    \A c \in Clients :
        (/\ pc[c] = "raised" /\ granted[c]
         /\ \A d \in Clients : ~Filling(d) /\ pc[d] # "crashed")
           => Get(redis, "lock") = 0 /\ Get(redis, "computing") = 0

\* --------------------------------------------------------------- C14
\* C14: fast path: the step of a request that finds the key in the cache ends
\* the request with the cached value and touches nothing else: no Redis key
\* is written, no lease is contended for, no computation is run.
C14_FastPath ==
    [][\A c \in Clients :
          (pc[c] \in {"start", "q_start"} /\ pc'[c] # pc[c] /\ Get(redis, "key") # 0)
             => /\ pc'[c] = "done"
                /\ got'[c] = Get(redis, "key")
                /\ redis' = redis
                /\ tried'[c] = -1 /\ invoked'[c] = 0 /\ ~granted'[c]]_vars

\* a request has ended on the fast path
C14_Witness ==
    \E c \in Clients :
        pc[c] = "done" /\ began[c] >= 0 /\ tried[c] = -1 /\ got[c] # 0 /\ invoked[c] = 0

\* --------------------------------------------------------------- C15
\* C15: an error of the SET NX EX is taken as "denied": no request that
\* contended for the lock and was not granted it ends with an exception
\* before it has waited and computed.
C15_AcquireErrorIsDenied ==
    \A c \in Clients :
        (tried[c] >= 0 /\ ~granted[c] /\ pc[c] = "raised") => invoked[c] = 1

\* --------------------------------------------------------------- C18
\* C18: a client that was granted the fill and then found the result slot
\* filled adopts the value without computing and has released its lease when
\* it returns: with no other client filling and none dead, the computing
\* marker is gone.
AdoptedAsFiller(c) == granted[c] /\ pc[c] = "done" /\ invoked[c] = 0 /\ got[c] # 0

C18_RecheckReleases ==
    \A c \in Clients :
        (/\ AdoptedAsFiller(c)
         /\ \A d \in Clients : ~Filling(d) /\ pc[d] \notin {"crashed", "raised"})
           => Get(redis, "computing") = 0

\* --------------------------------------------------------------- C19
\* C19: request coalescing: while a computing marker is there, at most one
\* client has passed the marker check into the filler role.
C19_AtomicElection ==
    Get(redis, "computing") # 0
       => Cardinality({c \in Clients :
                          pc[c] \in {"q_recheck", "q_computing", "q_store", "q_unmark"}}) <= 1

\* --------------------------------------------------------------- C20
\* C20: publication order of a successful fill: the result slot, then the
\* cache entry, then the release.  A filler about to write the cache entry
\* finds the result slot written; a filler about to release finds the result
\* slot and the cache entry written (the lock-based strategy has no result
\* slot: the cache entry); the value there is its own, or that of another
\* filler that has published too (and may have died since).
Published(v) ==
    \E d \in Clients :
        granted[d] /\ invoked[d] = 1 /\ got[d] = v
             /\ pc[d] \in {"q_store", "q_unmark", "done", "crashed"}

C16_LockOrdering ==
    strategy = "experiment_2_lock_ordering" =>
        /\ \A c \in Clients : ~Deadlocked(c) /\ tx[c].ret # "False"
        /\ \A c \in Clients : pc[c] = "done" <=> tx[c].ret = "True"
        /\ (\E c \in Clients : pc[c] # "done") => ENABLED DeadlockLabNext

\* the transfers 1 -> 2 and 2 -> 1 have both committed
C16_Witness ==
    /\ strategy = "experiment_2_lock_ordering"
    /\ tx[1].ret = "True" /\ tx[2].ret = "True"
    /\ db.balance[1] + db.balance[2] = 2 * InitialBalance

\* --------------------------------------------------------------- C17
\* C17: book_tickets_safe / book_tickets_serializable: in every state
\* sold_tickets, and sold_tickets with the uncommitted bookings added, is at
\* most total_tickets.
C17_NeverOversold ==
    strategy \in {"book_tickets_safe", "book_tickets_serializable"} =>
        /\ db.sold <= TotalTickets
        /\ \A c \in Clients : db.sold + tx[c].wr[EventId] <= TotalTickets

\* a booking has committed, and a concurrent one that ran into the
\* serialization failure has ended without booking
C17_Witness ==
    \E c, d \in Clients :
        /\ tx[c].ret = "True" /\ db.sold >= tx[c].qty
        /\ tx[d].ret = "False" /\ polls[d] >= 1

\* --------------------------------------------------------------- C21
\* A client's process is suspended after its r.get(key) missed (before its
\* r.get of key:computing, or before its r.setex of key:computing) for as long
\* as a computation and the result slot's TTL together.
coalescing_long_stall(c) ==
    /\ pc[c] \in {"q_check", "q_mark"}
    /\ due[c] = began[c]
    /\ due' = [due EXCEPT ![c] = @ + ComputeTicks + ResultTTL]
    /\ UNCHANGED <<db, rowlock, tx, strategy, now, late, redis, pc, polls, got, invoked, results, computations, computed, began, tried, granted>>

CoalescingLongStallNext == CoalescingFaultNext \/ \E c \in Clients : coalescing_long_stall(c)

CoalescingLongStallSpec == CoalescingFaultInit /\ [][CoalescingLongStallNext]_vars

\* the time the stored key k was written
WrittenAt(k) == redis[k].exp - (IF k = "key" THEN CacheTTL ELSE ResultTTL)

\* C21: a waiter polls for both the cache entry and the result slot and adopts
\* whichever is present first: no waiter has polled, found nothing and gone
\* back to sleep at a time when the cache entry or the result slot was
\* already stored.
C21_PollsBoth ==
    \A c \in Clients :
        (pc[c] \in {"wait", "q_wait"} /\ polls[c] >= 1) =>
            \A k \in {"key", "result"} :
                Get(redis, k) # 0 => WrittenAt(k) >= due[c] - PollTicks

\* --------------------------------------------------------------- C22
\* the waiter's loop has run out: range(20) in the lock-based strategy,
\* range(30) in request coalescing
TimedOut(c) ==
    polls[c] = (IF strategy = "request_coalescing_concurrent" THEN CoalescePolls ELSE LockPolls)

\* C22: a waiter whose deadline has passed with nothing observed first tries
\* again to acquire the lease (its fallback computation starts at the time of
\* an acquisition attempt of its own), and it returns with a value that it
\* computed itself, in one call.
C22_ReacquireThenCompute ==
    \A c \in Clients :
        /\ pc[c] = "timeout_computing" => tried[c] = due[c] - ComputeTicks
        /\ (TimedOut(c) /\ pc[c] = "done") => (got[c] # 0 /\ invoked[c] = 1)

\* --------------------------------------------------------------- C23
\* C23: one client request calls expensive_computation at most once, as
\* filler, as timed-out waiter or as adopter, also when the call raises; a
\* client inside the computation is in its first call.
C23_AtMostOnce ==
    \A c \in Clients :
        /\ invoked[c] <= 1
        /\ pc[c] \in {"computing", "timeout_computing", "q_computing"} => invoked[c] = 1

\* a filler and a timed-out waiter have each returned after one call, and a
\* third client has returned with an adopted value after none
C23_Witness ==
    \E f, w, a \in Clients :
        /\ granted[f] /\ pc[f] = "done" /\ invoked[f] = 1
        /\ ~granted[w] /\ TimedOut(w) /\ pc[w] = "done" /\ invoked[w] = 1
        /\ pc[a] = "done" /\ invoked[a] = 0 /\ got[a] # 0

\* --------------------------------------------------------------- C25
\* C25: a release removes only the releasing client's own lease: a holder
\* whose lease has not yet run out still finds it stored (no other client's
\* DELETE has removed it).
C25_ReleaseOwnLease ==
    \A c \in Clients :
        (InSection(c) /\ now < tried[c] + LeaseTTL) => HoldsLiveLease(c)

\* ------------------------------------------- lease lab: redis_lease_demo
TicksPerSecond == 10
DemoTTL == 5 * TicksPerSecond
DemoRounds == 3
RenewAbove == 2

\* r.ttl(k): the remaining time in whole seconds (Redis rounds the remaining
\* milliseconds to the nearest second), -2 when the key does not exist.
Ttl(r, k) ==
    IF r[k].val = 0 THEN -2 ELSE (2 * (r[k].exp - now) + TicksPerSecond) \div (2 * TicksPerSecond)

\* r.expire(k, ttl): a new expiration for the key if it exists, whoever set it.
ExpireIn(r, k, ttl) == IF r[k].val = 0 THEN r ELSE [r EXCEPT ![k].exp = now + ttl]

\* acquired = lab.redis.set(lock_key, lock_value, nx=True, ex=5);
\* if acquired: (refresh loop) else: print the holder and return
redis_lease_demo_set(c) ==
    /\ Ready(c, "rl_set")
    /\ redis' = SetNx(redis, "my-lock", DemoTTL, c)
    /\ began' = [began EXCEPT ![c] = now]
    /\ tried' = [tried EXCEPT ![c] = now]
    /\ granted' = [granted EXCEPT ![c] = SetNxGranted(redis, "my-lock")]
    /\ IF SetNxGranted(redis, "my-lock")
       THEN /\ pc' = [pc EXCEPT ![c] = "rl_ttl"]
            /\ due' = [due EXCEPT ![c] = now + TicksPerSecond]
       ELSE /\ pc' = [pc EXCEPT ![c] = "done"]
            /\ due' = [due EXCEPT ![c] = 0]
    /\ UNCHANGED <<db, rowlock, tx, strategy, now, late, polls, got, invoked, results, computations, computed>>

\* for i in range(3): time.sleep(1); ttl = lab.redis.ttl(lock_key)
redis_lease_demo_ttl(c) ==
    /\ Ready(c, "rl_ttl")
    /\ got' = [got EXCEPT ![c] = Ttl(redis, "my-lock")]
    /\ pc' = [pc EXCEPT ![c] = "rl_expire"]
    /\ due' = [due EXCEPT ![c] = now]
    /\ UNCHANGED <<db, rowlock, tx, strategy, now, late, redis, polls, invoked, results, computations, computed, began, tried, granted>>

\* if ttl > 2: lab.redis.expire(lock_key, 5) -- and the next round, or, after
\* the third, on to the release
redis_lease_demo_expire(c) ==
    /\ Ready(c, "rl_expire")
    /\ IF got[c] > RenewAbove
       THEN /\ redis' = ExpireIn(redis, "my-lock", DemoTTL)
            /\ tried' = [tried EXCEPT ![c] = now]
       ELSE UNCHANGED <<redis, tried>>
    /\ polls' = [polls EXCEPT ![c] = @ + 1]
    /\ IF polls[c] + 1 < DemoRounds
       THEN /\ pc' = [pc EXCEPT ![c] = "rl_ttl"]
            /\ due' = [due EXCEPT ![c] = now + TicksPerSecond]
       ELSE /\ pc' = [pc EXCEPT ![c] = "rl_release"]
            /\ due' = [due EXCEPT ![c] = now]
    /\ UNCHANGED <<db, rowlock, tx, strategy, now, late, got, invoked, results, computations, computed, began, granted>>

\* lab.redis.delete(lock_key)
redis_lease_demo_delete(c) ==
    /\ Ready(c, "rl_release")
    /\ redis' = Delete(redis, "my-lock")
    /\ pc' = [pc EXCEPT ![c] = "done"]
    /\ due' = [due EXCEPT ![c] = 0]
    /\ UNCHANGED <<db, rowlock, tx, strategy, now, late, polls, got, invoked, results, computations, computed, began, tried, granted>>

redis_lease_demo(c) ==
    \/ redis_lease_demo_set(c)
    \/ redis_lease_demo_ttl(c)
    \/ redis_lease_demo_expire(c)
    \/ redis_lease_demo_delete(c)

\* The holder's process is suspended inside one time.sleep(1) for the length
\* of its lease.
redis_lease_demo_stall(c) ==
    /\ pc[c] = "rl_ttl"
    /\ now < due[c]
    /\ due[c] < tried[c] + DemoTTL
    /\ due' = [due EXCEPT ![c] = @ + DemoTTL]
    /\ UNCHANGED <<db, rowlock, tx, strategy, now, late, redis, pc, polls, got, invoked, results, computations, computed, began, tried, granted>>

\* Several sessions of the lab client run the demo against the one Redis; the
\* last starts with the others or after a lease's TTL.  The key is not there.
RedisLeaseInit ==
    /\ strategy = "redis_lease_demo"
    /\ NoPostgres
    /\ now = 0
    /\ redis = [k \in Keys |-> Absent]
    /\ pc = [c \in Clients |-> "rl_set"]
    /\ \E t \in {0, DemoTTL + 5} : due = [c \in Clients |-> IF c = NumClients THEN t ELSE 0]
    /\ late = 0
    /\ polls = [c \in Clients |-> 0]
    /\ got = [c \in Clients |-> 0]
    /\ invoked = [c \in Clients |-> 0]
    /\ results = <<>>
    /\ computations = 0
    /\ computed = 0
    /\ began = [c \in Clients |-> -1]
    /\ tried = [c \in Clients |-> -1]
    /\ granted = [c \in Clients |-> FALSE]

RedisLeaseNext ==
    \/ Tick
    \/ \E c \in Clients : redis_lease_demo(c)
    \/ \E c \in Clients : redis_lease_demo_stall(c)

RedisLeaseSpec == RedisLeaseInit /\ [][RedisLeaseNext]_vars

\* --------------------------------------------------------------- C24
\* C24: a renewal extends the lease only while the renewing client still
\* holds it: the lease stored under the key always runs out one TTL after
\* its own holder's acquisition or latest renewal, never later through some
\* other client's renewal.
C24_RenewOnlyOwn ==
    strategy = "redis_lease_demo" =>
        \A c \in Clients :
            Get(redis, "my-lock") = c => redis["my-lock"].exp = tried[c] + DemoTTL

\* --------------------------------------------------------------- C26
\* the count printed at the end of a run: len(results), or computations
Reported ==
    IF strategy = "request_coalescing_concurrent" THEN computations ELSE Len(results)

\* C26: when all threads have been joined, the reported computation count is
\* the number of expensive_computation calls made in the run (so that "Single
\* flyer" / "Perfect coalescing", printed for a count of 1, means exactly one
\* call).
C26_ReportedCount == AllDone => Reported = TotalInvoked

\* --------------------------------------------------------------- C27
\* C27: transfer_locking_wrong_order, concurrent transfers 1 -> 2 and 2 -> 1:
\* a deadlock is reached; in it each of two opposite transfers holds the row
\* lock of its source account and waits for the other's, neither can run its
\* second UPDATE, and the database can abort either; an aborted call has
\* returned False, rolled back and holding no lock.
C27_DeadlockResolved ==
    strategy = "experiment_1_induce_deadlock" =>
        \A c \in Clients :
            /\ Deadlocked(c) =>
                  /\ \E d \in Clients :
                        /\ tx[d].src = tx[c].dst /\ tx[d].dst = tx[c].src
                        /\ pc[c] = "w_credit" /\ pc[d] = "w_credit"
                        /\ rowlock[tx[c].src] = c /\ rowlock[tx[d].src] = d
                  /\ ~ENABLED wrong_order_credit(c)
                  /\ ENABLED deadlock_detected(c)
            /\ tx[c].ret = "False" =>
                  /\ pc[c] = "done"
                  /\ tx[c].wr = NoWrites
                  /\ \A r \in Rows : rowlock[r] # c

\* threads A (1 -> 2) and B (2 -> 1) were deadlocked; one was aborted and has
\* returned False, the other has then committed
C27_Witness ==
    /\ strategy = "experiment_1_induce_deadlock"
    /\ \E c, d \in {1, 2} :
          /\ tx[c].ret = "False"
          /\ tx[d].ret = "True"
          /\ db.balance[tx[d].src] < db.balance[tx[d].dst]

\* --------------------------------------------------------------- C28
\* C28: under any interleaving of transfers, with either locking discipline,
\* the sum of the committed balances stays what it was; a transfer that has
\* returned has left nothing uncommitted, and one aborted by a deadlock has
\* changed no balance.
C28_SumPreserved ==
    /\ db.balance[1] + db.balance[2] = 2 * InitialBalance
    /\ \A c \in Clients : pc[c] = "done" => tx[c].wr = NoWrites
    /\ (\A c \in Clients : tx[c].ret \in {"none", "False"})
          => db.balance = [r \in Rows |-> InitialBalance]

\* a transfer has committed and moved its amount, and another was aborted by
\* the deadlock
C28_Witness ==
    \E c, d \in Clients :
        /\ tx[c].ret = "True"
        /\ tx[d].ret = "False"
        /\ db.balance[1] # InitialBalance

\* ------------------------------------- deadlock lab: experiment_4_retry_logic
TransferRetries == 3
RetryThread == 1

\* In the retry loop the call returns False after a deadlock (its except
\* clause, lines 62-65): success is False, there is no break and no exception,
\* so the for loop goes straight to its next attempt, or ends after the third.
retry_deadlock(c) ==
    /\ c = RetryThread
    /\ Deadlocked(c)
    /\ rowlock' = Unlocked(c)
    /\ tx' = [tx EXCEPT ![c].wr = NoWrites, ![c].ret = "False"]
    /\ polls' = [polls EXCEPT ![c] = @ + 1]
    /\ pc' = [pc EXCEPT ![c] = IF polls[c] + 1 < TransferRetries THEN "w_debit" ELSE "done"]
    /\ UNCHANGED <<strategy, db, redisvars>>

\* The call raises: psycopg.connect fails with an OperationalError that is
\* not a deadlock, which transfer_locking_wrong_order re-raises (line 66).  The
\* bare except prints and sleeps 0.1 * attempt.
retry_attempt_raises(c) ==
    /\ c = RetryThread
    /\ pc[c] = "w_debit"
    /\ polls' = [polls EXCEPT ![c] = @ + 1]
    /\ pc' = [pc EXCEPT ![c] = "r_backoff"]
    /\ UNCHANGED <<strategy, db, rowlock, tx, redisvars>>

\* time.sleep(0.1 * attempt) is over: the next attempt, or the end of the loop
retry_backoff(c) ==
    /\ c = RetryThread
    /\ pc[c] = "r_backoff"
    /\ pc' = [pc EXCEPT ![c] = IF polls[c] < TransferRetries THEN "w_debit" ELSE "done"]
    /\ UNCHANGED <<strategy, db, rowlock, tx, polls, redisvars>>

\* success = lab.transfer_locking_wrong_order(1, 2, 100, delay=0.1);
\* if success: break
experiment_4_retry_logic(c) ==
    \/ wrong_order_debit(c)
    \/ wrong_order_credit(c)
    \/ transfer_commit(c)
    \/ retry_deadlock(c)
    \/ retry_attempt_raises(c)
    \/ retry_backoff(c)

\* The retry loop (1 -> 2) runs in one session while other sessions run
\* transfer_locking_wrong_order, thread 2 from 2 to 1, the others either way.
RetryInit ==
    /\ strategy = "experiment_4_retry_logic"
    /\ pc = [c \in Clients |-> "w_debit"]
    /\ db = [balance |-> [r \in Rows |-> InitialBalance], sold |-> 0]
    /\ rowlock = [r \in Rows |-> 0]
    /\ \E dir \in [Clients -> {<<1, 2>>, <<2, 1>>}] :
          /\ dir[1] = <<1, 2>>
          /\ dir[2] = <<2, 1>>
          /\ tx = [c \in Clients |-> TransferArgs(dir[c][1], dir[c][2])]
    /\ now = 0
    /\ redis = [k \in Keys |-> Absent]
    /\ due = [c \in Clients |-> 0]
    /\ late = 0
    /\ polls = [c \in Clients |-> 0]
    /\ got = [c \in Clients |-> 0]
    /\ invoked = [c \in Clients |-> 0]
    /\ results = <<>>
    /\ computations = 0
    /\ computed = 0
    /\ began = [c \in Clients |-> -1]
    /\ tried = [c \in Clients |-> -1]
    /\ granted = [c \in Clients |-> FALSE]

RetryNext ==
    \/ experiment_4_retry_logic(RetryThread)
    \/ \E c \in Clients \ {RetryThread} :
          \/ wrong_order_debit(c)
          \/ wrong_order_credit(c)
          \/ transfer_commit(c)
          \/ deadlock_detected(c)

RetrySpec == RetryInit /\ [][RetryNext]_vars

\* --------------------------------------------------------------- C29
\* C29: experiment_4_retry_logic makes at most 3 attempts and none after a
\* successful one (so at most one transfer of 100 is applied), and an attempt
\* that fails with a deadlock is followed by the backoff sleep before the next
\* attempt.
C29_RetryWithBackoff ==
    [][strategy = "experiment_4_retry_logic" =>
          /\ polls'[RetryThread] <= TransferRetries
          /\ tx[RetryThread].ret = "True" =>
                (pc[RetryThread] = "done" /\ pc'[RetryThread] = "done")
          /\ (Deadlocked(RetryThread) /\ polls'[RetryThread] = polls[RetryThread] + 1)
                => pc'[RetryThread] = "r_backoff"]_vars

\* -------------------------------------- write-skew lab: book_tickets_unsafe
\* REPEATABLE READ: the SELECT takes the transaction's snapshot and no lock.
\* available = cur.fetchone()[0]; if available >= quantity: time.sleep(delay)
\* -- else "Sold out": return False
book_unsafe_select(c) ==
    /\ pc[c] = "u_select"
    /\ IF TotalTickets - db.sold >= tx[c].qty
       THEN /\ pc' = [pc EXCEPT ![c] = "u_update"]
            /\ tx' = [tx EXCEPT ![c].snap = db.sold]
       ELSE /\ pc' = [pc EXCEPT ![c] = "done"]
            /\ tx' = [tx EXCEPT ![c].snap = db.sold, ![c].ret = "False"]
    /\ UNCHANGED <<strategy, db, rowlock, polls, redisvars>>

\* UPDATE events SET sold_tickets = sold_tickets + quantity WHERE id = 1: the
\* statement waits for the row lock; under REPEATABLE READ, if the row was
\* changed by a transaction that committed after the snapshot, it raises
\* OperationalError "could not serialize access due to concurrent update" and
\* the transaction is rolled back.  The except clause looks for the words
\* "serialization" and "deadlock" in the server's message: it returns False
\* if it finds one and re-raises otherwise (the message is the server's).
book_unsafe_update(c) ==
    /\ pc[c] = "u_update"
    /\ RowFree(EventId, c)
    /\ IF db.sold = tx[c].snap
       THEN /\ Update(c, EventId, tx[c].qty)
            /\ pc' = [pc EXCEPT ![c] = "b_commit"]
            /\ polls' = polls
       ELSE /\ rowlock' = rowlock
            /\ polls' = [polls EXCEPT ![c] = @ + 1]
            /\ \/ /\ pc' = [pc EXCEPT ![c] = "done"]
                  /\ tx' = [tx EXCEPT ![c].ret = "False"]
               \/ /\ pc' = [pc EXCEPT ![c] = "raised"]
                  /\ tx' = tx
    /\ UNCHANGED <<strategy, db, redisvars>>

book_tickets_unsafe(c) ==
    \/ book_unsafe_select(c)
    \/ book_unsafe_update(c)
    \/ book_commit(c)

\* experiment_1_write_skew: lab.reset_event(); user A books 60 and user B
\* books 50 with book_tickets_unsafe; further users book either quantity.
WriteSkewInit ==
    /\ strategy = "experiment_1_write_skew"
    /\ pc = [c \in Clients |-> "u_select"]
    /\ db = [balance |-> [r \in Rows |-> 0], sold |-> 0]
    /\ rowlock = [r \in Rows |-> 0]
    /\ \E q \in [Clients -> {QuantityA, QuantityB}] :
          /\ q[1] = QuantityA
          /\ q[2] = QuantityB
          /\ tx = [c \in Clients |-> BookingArgs(q[c])]
    /\ now = 0
    /\ redis = [k \in Keys |-> Absent]
    /\ due = [c \in Clients |-> 0]
    /\ late = 0
    /\ polls = [c \in Clients |-> 0]
    /\ got = [c \in Clients |-> 0]
    /\ invoked = [c \in Clients |-> 0]
    /\ results = <<>>
    /\ computations = 0
    /\ computed = 0
    /\ began = [c \in Clients |-> -1]
    /\ tried = [c \in Clients |-> -1]
    /\ granted = [c \in Clients |-> FALSE]

WriteSkewNext == \E c \in Clients : book_tickets_unsafe(c)

WriteSkewSpec == WriteSkewInit /\ [][WriteSkewNext]_vars

\* --------------------------------------------------------------- C30
\* user A (60 tickets) and user B (50 tickets) have both seen 100 tickets
\* available: both SELECTs ran with sold_tickets = 0
BothSawAll ==
    \A c \in {1, 2} : pc[c] # "u_select" /\ tx[c].snap = 0

\* C30: book_tickets_unsafe under REPEATABLE READ, bookings of 60 and 50
\* against 100 total and 0 sold: when both have seen 100 available, both
\* succeed, and sold_tickets ends above total_tickets (110).
C30_WriteSkew ==
    (strategy = "experiment_1_write_skew" /\ BothSawAll /\ Finished(1) /\ Finished(2)) =>
        /\ tx[1].ret = "True" /\ tx[2].ret = "True"
        /\ db.sold >= QuantityA + QuantityB
        /\ db.sold > TotalTickets

\* under book_tickets_unsafe sold_tickets never exceeds total_tickets
UnsafeNeverOversold == db.sold <= TotalTickets

\* --------------------------------------------------------------- C31
\* C31: book_tickets_serializable ends after at most 5 attempts, and it ends
\* by returning: True on its first committed booking; False at once, without
\* a retry, when fewer tickets than asked for are available; False after its
\* 5th failed attempt; a serialization failure before that leads to a retry.
C31_TerminatesInFive ==
    strategy = "book_tickets_serializable" =>
        \A c \in Clients :
            /\ polls[c] <= MaxRetries
            /\ Finished(c) => tx[c].ret \in {"True", "False"}
            /\ tx[c].ret = "True" => pc[c] = "done"
            /\ tx[c].ret = "False" =>
                  \/ TotalTickets - tx[c].snap < tx[c].qty
                  \/ polls[c] = MaxRetries

\* --------------------------------------------------------------- C32
\* The three booking functions together: experiment 1 (book_tickets_unsafe)
\* or experiment 2 (book_tickets_safe / book_tickets_serializable).
BookingInit == SerializableInit \/ WriteSkewInit

BookingNext == SerializableNext \/ WriteSkewNext

BookingSpec == BookingInit /\ [][BookingNext]_vars

\* the tickets of the calls, among threads 1..n, that have returned True
RECURSIVE Booked(_)
Booked(n) ==
    IF n = 0 THEN 0
    ELSE (IF tx[n].ret = "True" THEN tx[n].qty ELSE 0) + Booked(n - 1)

\* C32: a booking call that has returned True has added exactly its quantity
\* to sold_tickets, in one committed transaction; a call that has returned
\* False has added nothing: sold_tickets is the sum of the quantities of the
\* calls that returned True, and a call that has ended holds no lock and no
\* uncommitted change.
C32_ReturnMatchesEffect ==
    /\ db.sold = Booked(NumClients)
    /\ \A c \in Clients :
          Finished(c) => (tx[c].wr = NoWrites /\ rowlock[EventId] # c)

\* under book_tickets_unsafe one booking has returned True and is counted in
\* sold_tickets, and one that ran into the serialization failure has returned
\* False
C32_Witness ==
    /\ strategy = "experiment_1_write_skew"
    /\ \E c, d \in Clients :
          /\ tx[c].ret = "True" /\ db.sold = tx[c].qty
          /\ tx[d].ret = "False" /\ polls[d] = 1 /\ tx[d].snap = 0

\* --------------------------------------------------------------- C33
\* C33: experiment_contended_leases (lease TTL 3 s, hold 2 s, retry every
\* 0.5 s, at most 10 attempts): every client acquires the lease exactly once
\* and releases it before its attempts are exhausted: a thread that has ended
\* was granted the lease, within its 10 attempts.
C33_EveryClientAcquires ==
    strategy = "experiment_contended_leases" =>
        \A c \in Clients :
            /\ polls[c] <= MaxAttempts
            /\ pc[c] = "done" => granted[c]

\* ------------------------------------------- CAP lab (design-102): Cassandra
\* The experiments run in one coroutine against a three-node Cassandra
\* cluster.  Here db is the cluster: the nodes that answer (up), whether the
\* keyspace cap_lab and its table exist, and the replicas that hold the row;
\* tx[CapMain] is the running call test_cassandra_write / test_cassandra_read
\* with its arguments; polls[CapMain] counts the calls made; results is the
\* experiment's list `results`, restricted to its Cassandra entries (the etcd
\* and MongoDB calls of experiment 1 touch neither the cluster nor a
\* Cassandra entry).  A node is taken out and brought back with docker pause
\* and docker unpause at any moment.
ReplicationFactor == 3
CapMain == 1

\* cassandra1, cassandra2, cassandra3; with replication_factor 3 every node
\* is a replica of every row
Nodes == 1..ReplicationFactor

\* the replicas a statement needs at a consistency level
Required(level) ==
    CASE level = "ONE" -> 1
      [] level = "LOCAL_ONE" -> 1
      [] level = "QUORUM" -> (ReplicationFactor \div 2) + 1
      [] level = "ALL" -> ReplicationFactor

\* session.execute(query, params, timeout=5) names no consistency level and
\* the statement is a plain string: it runs at the session's default level
SessionLevel == "LOCAL_ONE"

\* f"cassandra-{cl.name}"
SystemLabel(level) ==
    CASE level = "ONE" -> "cassandra-ONE"
      [] level = "QUORUM" -> "cassandra-QUORUM"
      [] level = "ALL" -> "cassandra-ALL"

\* the Cassandra calls an experiment makes, in order
Calls(s) ==
    IF s = "experiment_3_consistency_levels"
    THEN << [operation |-> "write", cl |-> "ONE", value |-> "none"],
            [operation |-> "write", cl |-> "QUORUM", value |-> "none"],
            [operation |-> "write", cl |-> "ALL", value |-> "none"] >>
    ELSE << [operation |-> "write", cl |-> "QUORUM", value |-> "none"],
            [operation |-> "read", cl |-> "QUORUM", value |-> "none"] >>

CapUnchanged ==
    UNCHANGED <<strategy, now, redis, due, late, got, invoked, computations, computed,
                began, tried, granted, rowlock>>

\* for cl in [ONE, QUORUM, ALL]: print cl.name, call test_cassandra_write;
\* after the loop save_results.  cl.name is the first use of the attribute:
\* whether the driver's ConsistencyLevel members carry one is the library's,
\* and without it the experiment ends here by AttributeError.
experiment_3_consistency_levels(c) ==
    /\ strategy = "experiment_3_consistency_levels"
    /\ pc[c] = "e_call"
    /\ IF polls[c] < Len(Calls(strategy))
       THEN \/ /\ pc' = [pc EXCEPT ![c] = "cs_connect"]
               /\ tx' = [tx EXCEPT ![c] = Calls(strategy)[polls[c] + 1]]
            \/ /\ polls[c] = 0
               /\ pc' = [pc EXCEPT ![c] = "raised"]
               /\ tx' = tx
       ELSE /\ pc' = [pc EXCEPT ![c] = "done"]
            /\ tx' = tx
    /\ UNCHANGED <<db, polls, results>>
    /\ CapUnchanged

\* the Cassandra part of experiment 1: a write, then a read, both passed QUORUM
experiment_1_normal_operations(c) ==
    /\ strategy = "experiment_1_normal_operations"
    /\ pc[c] = "e_call"
    /\ IF polls[c] < Len(Calls(strategy))
       THEN /\ pc' = [pc EXCEPT ![c] = "cs_connect"]
            /\ tx' = [tx EXCEPT ![c] = Calls(strategy)[polls[c] + 1]]
       ELSE /\ pc' = [pc EXCEPT ![c] = "done"]
            /\ tx' = tx
    /\ UNCHANGED <<db, polls, results>>
    /\ CapUnchanged

\* Cluster(...).connect() needs one contact point that answers.  The write
\* then creates keyspace and table if they are missing; the read's
\* set_keyspace('cap_lab') fails when the keyspace does not exist.
cassandra_connect(c) ==
    /\ pc[c] = "cs_connect"
    /\ IF db.up = {}
       THEN /\ pc' = [pc EXCEPT ![c] = "cs_except"]
            /\ db' = db
       ELSE IF tx[c].operation = "write"
            THEN /\ pc' = [pc EXCEPT ![c] = "cs_execute"]
                 /\ db' = [db EXCEPT !.keyspace = TRUE]
            ELSE /\ pc' = [pc EXCEPT ![c] = IF db.keyspace THEN "cs_execute" ELSE "cs_except"]
                 /\ db' = db
    /\ UNCHANGED <<tx, polls, results>>
    /\ CapUnchanged

\* session.execute(query, params, timeout=5): the statement succeeds when the
\* replicas its consistency level needs are up.  An INSERT reaches every
\* replica that is up; a SELECT at one replica returns that replica's row.
cassandra_execute(c) ==
    /\ pc[c] = "cs_execute"
    /\ IF Cardinality(db.up) >= Required(SessionLevel)
       THEN /\ pc' = [pc EXCEPT ![c] = "cs_return"]
            /\ IF tx[c].operation = "write"
               THEN /\ db' = [db EXCEPT !.rows = [n \in Nodes |-> @[n] \/ n \in db.up]]
                    /\ tx' = tx
               ELSE /\ db' = db
                    /\ \E n \in db.up :
                          tx' = [tx EXCEPT ![c].value = IF db.rows[n] THEN "value" ELSE "None"]
       ELSE /\ pc' = [pc EXCEPT ![c] = "cs_except"]
            /\ UNCHANGED <<db, tx>>
    /\ UNCHANGED <<polls, results>>
    /\ CapUnchanged

\* return ExperimentResult(f"cassandra-{cl.name}", operation, True, ...) after
\* the statement, or (..., False, ..., str(e)) from the except clause; the
\* caller appends it to results.  In experiment 1 this is the first use of
\* cl.name: without the attribute the AttributeError of the return statement
\* is caught, raised again in the except clause and leaves the call.
cassandra_return(c) ==
    /\ pc[c] \in {"cs_return", "cs_except"}
    /\ \/ /\ results' = Append(results,
                           [system |-> SystemLabel(tx[c].cl),
                            operation |-> tx[c].operation,
                            success |-> (pc[c] = "cs_return"),
                            value |-> tx[c].value])
          /\ polls' = [polls EXCEPT ![c] = @ + 1]
          /\ pc' = [pc EXCEPT ![c] = "e_call"]
       \/ /\ strategy = "experiment_1_normal_operations"
          /\ results = <<>>
          /\ pc' = [pc EXCEPT ![c] = "raised"]
          /\ UNCHANGED <<polls, results>>
    /\ UNCHANGED <<db, tx>>
    /\ CapUnchanged

\* docker pause cassandra<n> / docker unpause cassandra<n>
docker_pause(n) ==
    /\ n \in db.up
    /\ db' = [db EXCEPT !.up = @ \ {n}]
    /\ UNCHANGED <<pc, tx, polls, results>>
    /\ CapUnchanged

docker_unpause(n) ==
    /\ n \in Nodes \ db.up
    /\ db' = [db EXCEPT !.up = @ \cup {n}]
    /\ UNCHANGED <<pc, tx, polls, results>>
    /\ CapUnchanged

\* a fresh lab: all nodes healthy, no keyspace yet
CassandraInit ==
    /\ strategy \in {"experiment_1_normal_operations", "experiment_3_consistency_levels"}
    /\ pc = [c \in Clients |-> IF c = CapMain THEN "e_call" ELSE "done"]
    /\ db = [up |-> Nodes, keyspace |-> FALSE, rows |-> [n \in Nodes |-> FALSE]]
    /\ rowlock = [r \in Rows |-> 0]
    /\ tx = [c \in Clients |-> NoTx]
    /\ now = 0
    /\ redis = [k \in Keys |-> Absent]
    /\ due = [c \in Clients |-> 0]
    /\ late = 0
    /\ polls = [c \in Clients |-> 0]
    /\ got = [c \in Clients |-> 0]
    /\ invoked = [c \in Clients |-> 0]
    /\ results = <<>>
    /\ computations = 0
    /\ computed = 0
    /\ began = [c \in Clients |-> -1]
    /\ tried = [c \in Clients |-> -1]
    /\ granted = [c \in Clients |-> FALSE]

CassandraNext ==
    \/ experiment_1_normal_operations(CapMain)
    \/ experiment_3_consistency_levels(CapMain)
    \/ cassandra_connect(CapMain)
    \/ cassandra_execute(CapMain)
    \/ cassandra_return(CapMain)
    \/ \E n \in Nodes : docker_pause(n)
    \/ \E n \in Nodes : docker_unpause(n)

CassandraSpec == CassandraInit /\ [][CassandraNext]_vars

\* --------------------------------------------------------------- C34
\* C34: test_cassandra_write and test_cassandra_read execute their statement
\* at the consistency level passed as cl: the statement succeeds exactly when
\* the replicas that cl needs are up (a write at ALL fails with one of the
\* three replicas down, a write at ONE succeeds), and the result appended is
\* labelled with that level.
C34_ExecutesAtCl ==
    [][/\ (pc[CapMain] = "cs_execute" /\ pc'[CapMain] # "cs_execute") =>
              (pc'[CapMain] = "cs_return" <=>
                   Cardinality(db.up) >= Required(tx[CapMain].cl))
       /\ (pc[CapMain] \in {"cs_return", "cs_except"} /\ Len(results') > Len(results)) =>
              results'[Len(results')].system = SystemLabel(tx[CapMain].cl)]_vars

=============================================================================
